---- MODULE Spec2Model ----
(***************************************************************************)
(* A model of detect.py: the command-line driver that loads a detection    *)
(* model, iterates over a dataset of image paths, runs one forward pass    *)
(* per image and writes label files and annotated images.                  *)
(*                                                                         *)
(* Strings (paths, file names) are sequences of one-character strings.     *)
(* Tensor values (box coordinates) are fixed-point numbers counted in      *)
(* halves: the value v is represented by the integer 2*v, so that the      *)
(* centre (x0+x1)/2 of a rounded box is represented exactly.  Scores and   *)
(* the confidence threshold are counted in tenths.                         *)
(***************************************************************************)
EXTENDS Integers, Sequences, FiniteSets, TLC

VARIABLES
    args,      \* the parsed command line plus the fields main adds (mode)
    dataset,   \* the sequence of image paths the dataset yields
    pc,        \* position of the script
    k,         \* index of the image the for loop of main is at
    dets,      \* model_out of the current image: detections of detections[0]
    j,         \* index of the next detection in the write loop of overlay_boxes
    img,       \* the image overlay_boxes holds in memory
    files,     \* the files under output_dir: file name -> content
    files0,    \* the files as they were when overlay_boxes was entered
    stdout,    \* the messages printed
    trace      \* the calls made so far, in order

vars == <<args, dataset, pc, k, dets, j, img, files, files0, stdout, trace>>

----------------------------------------------------------------------------
(* Bounds of the model *)

MaxImages == 2

MaxDets == 2

SeqsUpTo(S, n) == UNION {[1..m -> S] : m \in 0..n}

----------------------------------------------------------------------------
(* Paths: pathlib's name, stem and joinpath *)

OutputDir == <<"o">>

TxtSuffix == <<".", "t", "x", "t">>

AllPaths ==
    { <<"d", "/", "a", ".", "j">>,
      <<"a", ".", "p">> }

LastIndexOf(s, c) ==
    LET hits == {i \in 1..Len(s) : s[i] = c}
    IN  IF hits = {} THEN 0 ELSE CHOOSE i \in hits : \A h \in hits : h <= i

PathName(p) == SubSeq(p, LastIndexOf(p, "/") + 1, Len(p))

PathStem(p) ==
    LET n == PathName(p)
        i == LastIndexOf(n, ".")
    IN  IF 1 < i /\ i < Len(n) THEN SubSeq(n, 1, i - 1) ELSE n

JoinPath(dir, n) == dir \o <<"/">> \o n

save_path(path) == JoinPath(OutputDir, PathName(path))

txt_path(path) == JoinPath(OutputDir, PathStem(path))

TxtFile(path) == txt_path(path) \o TxtSuffix

----------------------------------------------------------------------------
(* Tensors *)

\* torch.round on a value counted in halves: halves round to the even integer
Round(h) ==
    IF h % 2 = 0 THEN h
    ELSE LET q == (h - 1) \div 2
         IN  IF q % 2 = 0 THEN 2 * q ELSE 2 * (q + 1)

RoundBox(b) == [i \in 1..4 |-> Round(b[i])]

\* (x0, y0, x1, y1) -> (cx, cy, w, h)
box_xyxy_to_cxcywh(b) ==
    << (b[1] + b[3]) \div 2, (b[2] + b[4]) \div 2, b[3] - b[1], b[4] - b[2] >>

\* ('%g ' * 5 + '\n') % (cls_name, *xywh): five numeric fields, the class id
\* as it is and the four box values counted in halves
LabelLine(d) == <<d.label>> \o box_xyxy_to_cxcywh(RoundBox(d.box))

\* what plot_one_box is given: the rounded box, the class and the score
Drawn(d) == [xyxy |-> RoundBox(d.box), cls |-> d.label, conf |-> d.score]

----------------------------------------------------------------------------
(* Inputs *)

DetA == [box |-> <<21, 40, 61, 83>>, score |-> 9, label |-> 0]

DetB == [box |-> <<0, 1, 2, 3>>, score |-> 3, label |-> 1]

Detections == {DetA, DetB}

\* the detections the model may return for one image
ModelOutputs == SeqsUpTo(Detections, MaxDets)

NoClasses == [given |-> FALSE, ids |-> {}]

ClassesChoices == {NoClasses, [given |-> TRUE, ids |-> {0}]}

ConfThresChoices == {4, 8}

Modes == {"images", "video"}

ArgsChoices ==
    [save_txt : BOOLEAN, save_img : BOOLEAN, classes : ClassesChoices,
     conf_thres : ConfThresChoices, mode : Modes]

NoImage == [loaded |-> FALSE, src |-> <<>>, boxes |-> <<>>]

imread(path) == [loaded |-> TRUE, src |-> path, boxes |-> <<>>]

TxtContent(lines) == [kind |-> "txt", lines |-> lines, image |-> NoImage]

ImgContent(image) == [kind |-> "img", lines |-> <<>>, image |-> image]

FileWrite(fs, name, content) ==
    [f \in DOMAIN fs \cup {name} |-> IF f = name THEN content ELSE fs[f]]

\* open(name, 'a').write(line)
FileAppend(fs, name, line) ==
    FileWrite(fs, name,
              TxtContent(IF name \in DOMAIN fs
                         THEN Append(fs[name].lines, line)
                         ELSE <<line>>))

NoFiles == [f \in {} |-> TxtContent(<<>>)]

----------------------------------------------------------------------------
(* The script *)

\* one call of the run: the model load and the warm-up carry no image
Event(op, i) == [op |-> op, k |-> i, path |-> IF i = 0 THEN <<>> ELSE dataset[i]]

Init ==
    /\ args \in ArgsChoices
    /\ dataset \in SeqsUpTo(AllPaths, MaxImages)
    /\ pc = "load"
    /\ k = 0
    /\ dets = <<>>
    /\ j = 0
    /\ img = NoImage
    /\ files = NoFiles
    /\ files0 = NoFiles
    /\ stdout = <<>>
    /\ trace = <<>>

\* main: model = yolov5(...); model.eval(); model.to(device); dataset = ...
LoadModel ==
    /\ pc = "load"
    /\ pc' = "warmup"
    /\ trace' = Append(trace, Event("load", 0))
    /\ UNCHANGED <<args, dataset, k, dets, j, img, files, files0, stdout>>

\* main: _ = model([img])  # run once
WarmUp ==
    /\ pc = "warmup"
    /\ pc' = "iter"
    /\ trace' = Append(trace, Event("warmup", 0))
    /\ UNCHANGED <<args, dataset, k, dets, j, img, files, files0, stdout>>

\* main: for data in dataset, the next item
NextImage ==
    /\ pc = "iter"
    /\ k < Len(dataset)
    /\ k' = k + 1
    /\ pc' = "infer"
    /\ UNCHANGED <<args, dataset, dets, j, img, files, files0, stdout, trace>>

\* main: model_out, time_consume = inference(model, img_name, device, is_half)
InferenceNoOverlay(out) ==
    /\ pc = "infer"
    /\ dets' = out
    /\ pc' = "iter"
    /\ trace' = Append(trace, Event("inference", k))
    /\ UNCHANGED <<args, dataset, k, j, img, files, files0, stdout>>

Inference(out) ==
    /\ pc = "infer"
    /\ dets' = out
    /\ pc' = "overlay"
    /\ trace' = Append(trace, Event("inference", k))
    /\ UNCHANGED <<args, dataset, k, j, img, files, files0, stdout>>

\* overlay_boxes: img = cv2.imread(path) if args.save_img else None
OverlayBegin ==
    /\ pc = "overlay"
    /\ img' = IF args.save_img THEN imread(dataset[k]) ELSE NoImage
    /\ j' = 1
    /\ files0' = files
    /\ pc' = "boxes"
    /\ trace' = Append(trace, Event("overlay_boxes", k))
    /\ UNCHANGED <<args, dataset, k, dets, files, stdout>>

\* overlay_boxes: one turn of "for xyxy, conf, cls_name in zip(...)"
WriteResultTruncate ==
    /\ pc = "boxes"
    /\ j <= Len(dets)
    /\ files' = IF args.save_txt
                THEN FileWrite(files, TxtFile(dataset[k]),
                               TxtContent(<<LabelLine(dets[j])>>))
                ELSE files
    /\ img' = IF args.save_img
              THEN [img EXCEPT !.boxes = Append(@, Drawn(dets[j]))]
              ELSE img
    /\ j' = j + 1
    /\ UNCHANGED <<args, dataset, pc, k, dets, files0, stdout, trace>>

WriteResult ==
    /\ pc = "boxes"
    /\ j <= Len(dets)
    /\ files' = IF args.save_txt
                THEN FileAppend(files, TxtFile(dataset[k]), LabelLine(dets[j]))
                ELSE files
    /\ img' = IF args.save_img
              THEN [img EXCEPT !.boxes = Append(@, Drawn(dets[j]))]
              ELSE img
    /\ j' = j + 1
    /\ UNCHANGED <<args, dataset, pc, k, dets, files0, stdout, trace>>

\* overlay_boxes: print Done, cv2.imwrite(str(save_path), img), return
SaveResultAnyMode ==
    /\ pc = "boxes"
    /\ j > Len(dets)
    /\ stdout' = Append(stdout, "image_done")
    /\ files' = IF args.save_img
                THEN FileWrite(files, save_path(dataset[k]), ImgContent(img))
                ELSE files
    /\ pc' = "iter"
    /\ j' = 0
    /\ img' = NoImage
    /\ UNCHANGED <<args, dataset, k, dets, files0, trace>>

SaveResult ==
    /\ pc = "boxes"
    /\ j > Len(dets)
    /\ stdout' = Append(stdout, "image_done")
    /\ files' = IF args.save_img /\ args.mode = "images"
                THEN FileWrite(files, save_path(dataset[k]), ImgContent(img))
                ELSE files
    /\ pc' = "iter"
    /\ j' = 0
    /\ img' = NoImage
    /\ UNCHANGED <<args, dataset, k, dets, files0, trace>>

\* main: after the loop, the two final messages
Finish ==
    /\ pc = "iter"
    /\ k = Len(dataset)
    /\ stdout' = (IF args.save_txt \/ args.save_img
                  THEN Append(stdout, "results_saved") ELSE stdout)
                 \o <<"done">>
    /\ pc' = "done"
    /\ UNCHANGED <<args, dataset, k, dets, j, img, files, files0, trace>>

\* the steps that call into a library or do input/output
RaisingSteps == {"load", "warmup", "iter", "infer", "overlay", "boxes"}

\* an exception raised by the step the script is at; nothing catches it
RaiseCleanup ==
    /\ pc \in RaisingSteps
    /\ pc = "iter" => k < Len(dataset)
    /\ pc' = "raised"
    /\ files' = IF pc = "boxes" THEN files0 ELSE files
    /\ UNCHANGED <<args, dataset, k, dets, j, img, files0, stdout, trace>>

Raise ==
    /\ pc \in RaisingSteps
    /\ pc = "iter" => k < Len(dataset)
    /\ pc' = "raised"
    /\ UNCHANGED <<args, dataset, k, dets, j, img, files, files0, stdout, trace>>

Next ==
    \/ LoadModel
    \/ WarmUp
    \/ NextImage
    \/ \E out \in ModelOutputs : Inference(out)
    \/ OverlayBegin
    \/ WriteResult
    \/ SaveResult
    \/ Finish
    \/ Raise

Spec == Init /\ [][Next]_vars

----------------------------------------------------------------------------
(* Helpers of the properties *)

Range(s) == {s[i] : i \in 1..Len(s)}

IsPrefix(s, t) == Len(s) <= Len(t) /\ SubSeq(t, 1, Len(s)) = s

LinesOf(fs, name) == IF name \in DOMAIN fs THEN fs[name].lines ELSE <<>>

\* overlay_boxes of image k has returned
Completed == pc \in {"iter", "done"} /\ k >= 1

\* the calls of a complete run over the dataset
ExpectedTrace ==
    [i \in 1..(2 + 2 * Len(dataset)) |->
        IF i = 1 THEN [op |-> "load", k |-> 0, path |-> <<>>]
        ELSE IF i = 2 THEN [op |-> "warmup", k |-> 0, path |-> <<>>]
        ELSE IF i % 2 = 1
             THEN [op |-> "inference", k |-> (i - 1) \div 2,
                   path |-> dataset[(i - 1) \div 2]]
             ELSE [op |-> "overlay_boxes", k |-> (i - 2) \div 2,
                   path |-> dataset[(i - 2) \div 2]]]

----------------------------------------------------------------------------
(* C1: a run is strictly sequential: the model load, the warm-up pass, then
   for each image the dataset yields, in the dataset's order, one inference
   followed by one overlay_boxes; the calls made so far are always a prefix
   of that sequence, and a run that ends has made all of them. *)
C1_Sequential ==
    /\ IsPrefix(trace, ExpectedTrace)
    /\ pc = "done" => trace = ExpectedTrace

C1_Witness == pc = "done" /\ Len(dataset) = MaxImages /\ Len(trace) = 2 + 2 * MaxImages

(* C2: with save_txt, after overlay_boxes has handled j-1 detections of
   image k, the file <output_dir>/<stem>.txt holds what it held when
   overlay_boxes was entered followed by one line per handled detection, in
   detection order, and no other label file has changed; when the loop has
   ended the lines appended are as many as the detections.  Without
   save_txt there is no label file at all. *)
C2_LabelFile ==
    /\ (pc = "boxes" /\ args.save_txt) =>
          LET name == OutputDir \o <<"/">> \o PathStem(dataset[k]) \o TxtSuffix
          IN  /\ LinesOf(files, name) =
                    LinesOf(files0, name) \o [i \in 1..(j - 1) |-> LabelLine(dets[i])]
              /\ Len(LinesOf(files, name)) - Len(LinesOf(files0, name)) = j - 1
              /\ \A f \in (DOMAIN files \cup DOMAIN files0) \ {name} :
                    (f \in DOMAIN files0 /\ files0[f].kind = "txt")
                        => (f \in DOMAIN files /\ files[f] = files0[f])
              /\ \A f \in DOMAIN files \ (DOMAIN files0 \cup {name}) :
                    files[f].kind # "txt"
    /\ ~args.save_txt => \A f \in DOMAIN files : files[f].kind # "txt"

C2_Witness ==
    /\ pc = "boxes"
    /\ args.save_txt
    /\ Len(dets) = MaxDets
    /\ j = Len(dets) + 1
    /\ Len(LinesOf(files0, TxtFile(dataset[k]))) > 0
    /\ k >= 2
    /\ dataset[k] # dataset[k - 1]

(* C3 as stated: with save_img, every image whose overlay_boxes has returned
   has an annotated image at <output_dir>/<basename>, whatever the mode. *)
C3_AnyModeWritten ==
    (args.save_img /\ Completed) =>
        (OutputDir \o <<"/">> \o PathName(dataset[k])) \in DOMAIN files

(* C3 amended: with save_img and mode 'images', when overlay_boxes of image k
   has returned, <output_dir>/<basename> holds the image read from the input
   path with all of the image's boxes drawn, in detection order; without
   save_img, or in any other mode, no image file is ever written. *)
C3_ImagesModeWritten ==
    /\ (args.save_img /\ args.mode = "images" /\ Completed) =>
          LET name == OutputDir \o <<"/">> \o PathName(dataset[k])
          IN  /\ name \in DOMAIN files
              /\ files[name].kind = "img"
              /\ files[name].image.loaded
              /\ files[name].image.src = dataset[k]
              /\ files[name].image.boxes = [i \in 1..Len(dets) |-> Drawn(dets[i])]
    /\ (~args.save_img \/ args.mode # "images") =>
          \A f \in DOMAIN files : files[f].kind # "img"

C3_Witness ==
    /\ args.save_img
    /\ args.mode = "images"
    /\ Completed
    /\ Len(dets) = MaxDets
    /\ save_path(dataset[k]) \in DOMAIN files

(* C4: an exception ends the run: the step that raises leaves the files, the
   printed messages and the calls made as they are (no rollback of the lines
   already appended), the final messages have not been printed, and nothing
   happens after it (no later image, no retry). *)
C4_NoRecovery ==
    [][ /\ pc # "raised"
        /\ pc' = "raised" =>
              /\ files' = files
              /\ stdout' = stdout
              /\ trace' = trace
              /\ k' = k
              /\ "done" \notin Range(stdout')
              /\ "results_saved" \notin Range(stdout') ]_vars

C4_Witness ==
    /\ pc = "raised"
    /\ k >= 2
    /\ j > 1
    /\ args.save_txt
    /\ files0 # NoFiles
    /\ files # files0

(* C5: when --classes is given, every detection written to a label file or
   drawn on an image has a label in the list. *)
C5_ClassesFilter ==
    args.classes.given =>
        /\ \A f \in DOMAIN files :
              /\ \A i \in 1..Len(files[f].lines) :
                    files[f].lines[i][1] \in args.classes.ids
              /\ \A i \in 1..Len(files[f].image.boxes) :
                    files[f].image.boxes[i].cls \in args.classes.ids
        /\ \A i \in 1..Len(img.boxes) : img.boxes[i].cls \in args.classes.ids

(* C6: every detection written to a label file or drawn on an image has a
   score of at least conf_thres. *)
C6_ConfThreshold ==
    (pc = "boxes" /\ (args.save_txt \/ args.save_img)) =>
        \A i \in 1..(j - 1) : dets[i].score >= args.conf_thres

(* C7: every label line has five fields, the class id and then the centre-x,
   centre-y, width and height of the rounded box normalized so that each
   lies in [0, 1] (0 to 2 halves). *)
C7_NormalizedXywh ==
    \A f \in DOMAIN files :
        \A i \in 1..Len(files[f].lines) :
            LET line == files[f].lines[i]
            IN  /\ Len(line) = 5
                /\ \A n \in 2..5 : 0 <= line[n] /\ line[n] <= 2

====
